---- MODULE Spec2Model ----
(***************************************************************************)
(* Model of the streaming conversation hook useStreamingSearch             *)
(* (src/src/hooks/useStreamingSearch.ts).                                  *)
(*                                                                         *)
(* Text is a sequence of characters, so that string concatenation is \o   *)
(* and the empty string is << >>.  Every call of search/followUp that     *)
(* gets past its guard creates one operation: a closure with its own      *)
(* AbortController, currentContent and currentSources.  One step of an    *)
(* operation is one resumption of its async function: the fetch settling, *)
(* one line of a chunk being dispatched, the reader reporting the end of  *)
(* the stream, or a rejection landing in the catch handler.               *)
(***************************************************************************)
EXTENDS Integers, Sequences, FiniteSets, TLC

\* ---------------------------------------------------------------- bounds
\* inputs the environment gives the hook in one run: calls of search,
\* followUp, loadThread, reset, the unmount cleanup, and lines of a stream
MaxInputs == 4

\* the delay of the throttle timeout, in ms
ThrottleMs == 33

\* the clock of the timed specification stops here: room for two full
\* throttle periods
MaxTime == 70

\* the longest response body the decoder is run on, in bytes
MaxBytes == 4

\* the longest message content that is displayed, in pieces of markup, and
\* the longest source list
MaxContent == 3
MaxSources == 2

\* navigations of the search page to a thread
MaxNavigations == 3

\* the largest limits a rate limiter is created with, and how long the
\* clock runs, in ms
MaxLimit == 2
MaxWindow == 3
MaxClock == 6

\* how many calls the call stack holds, and how many shortcut actions the
\* keys pressed start
MaxStack == 4
MaxKeyActions == 3

\* ------------------------------------------------------- values and inputs
NULL == <<"<null>">>             \* JS null
Undefined == <<"<undefined>">>   \* a missing optional field

Queries == {<<"Q">>}
TokenPayloads == {<<"a">>, <<"b">>}
SourceLists == {<<"s1">>, <<"s2", "s3">>}
SessionIds == {<<"sid">>}
ThreadIds == {<<"tid">>}
StatusMessages == {<<"Searching...">>}
QuestionLists == {<<"rq">>}
ErrorMessages == {<<"boom">>}
\* what a failing fetch/read throws: an Error with a message (possibly
\* empty), or a value that is not an Error
Thrown == {<<"HTTP error! status: 500">>, << >>, <<"<not an Error>">>}
NotAnError == <<"<not an Error>">>

UserTurn(q) == [role |-> "user", content |-> q, sources |-> Undefined]
AssistantTurn(c, s) == [role |-> "assistant", content |-> c, sources |-> s]

\* thread data handed to loadThread: {id, session_id, messages}
Threads ==
  { [id |-> <<"T1">>, session_id |-> <<"S1">>,
     messages |-> << UserTurn(<<"Q">>), AssistantTurn(<<"A">>, << >>) >>],
    [id |-> <<"T2">>, session_id |-> <<"S2">>,
     messages |-> << UserTurn(<<"P">>), AssistantTurn(<<"A">>, <<"s1">>),
                     AssistantTurn(<<"B">>, Undefined), UserTurn(<<"R">>) >>],
    [id |-> <<"T3">>, session_id |-> <<"S3">>,
     messages |-> << UserTurn(<<"P">>) >>] }

\* ------------------------------------------------------------------ state
VARIABLES
  content, sources, relatedQuestions, status, isLoading,
  sessionId, threadId, error, conversation, currentQuery,
  abortControllerRef,   \* 0 = null, else the operation owning the controller
  throttleTimerRef,     \* TRUE = the ref holds a timeout handle
  timeouts,             \* setTimeout callbacks scheduled and not yet run
  timerDue,             \* when the timeout the ref holds is due (0: none)
  now,                  \* the clock, in ms
  lastFlushAt,          \* when the timeout callback ran the last two times:
                        \* <<before last, last>> (-1: never)
  pendingContentRef,
  ops,                  \* the closures of the search/followUp calls
  nOps,                 \* operations created so far
  fetchCalls,           \* calls of fetch() so far
  inputs,               \* calls made and lines dispatched so far
  mounted,              \* FALSE after the unmount cleanup
  lastCall,             \* the last of search/followUp/loadThread/reset called
  lastStep,             \* the step that produced this state
  \* the stream decoder of one operation (the read loop of search/followUp)
  stream,               \* the bytes of the response body
  delivered,            \* how many of them reader.read() has handed over
  decoderPending,       \* TextDecoder: bytes of an incomplete character
  buffer,               \* the carry-over buffer
  handedLines,          \* the lines the for loop has been run on, in order
  readerDone,           \* reader.read() has reported done
  \* the display of one assistant message (SearchResults, ConversationMessage)
  props,                \* what there is to show: content, sources, isStreaming
  viewPc,               \* "idle", "input", "shown", "clicked"
  viewPath,             \* the component that shows it: "turn", "streaming"
                        \* (SearchResults), "shared", "summary"; "none"
  displayed,            \* the markup put into the page
  stagesRun,            \* the calls made on the content on its way into
                        \* the page (replace, sanitize), in order
  opened,               \* the URLs window.open was called with
  clicked,              \* the position in the page of the element clicked
  \* the search page (SearchContent): loading a thread named by the URL
  urlThread,            \* the threadId parameter of the URL (NULL: none)
  threadFetches,        \* the fetches of /api/threads/<id> issued, in order
  \* one useRateLimit hook
  options,              \* { maxRequests, windowMs }
  requestTimestamps,    \* the ref: times of the requests let through
  remainingRequests,
  resetTime,            \* a time, or NoDate for null
  dateNow,              \* what Date.now() returns
  accepted,             \* the times of all calls that returned true
  lastResult,           \* what the last call of checkLimit returned
  \* the keyboard shortcuts (useKeyboardShortcuts)
  keyStack,             \* the keydown events handleKeyDown is running on,
                        \* the innermost call last
  keyPc,                \* "idle", "handling", "overflow"
  actionsRun            \* the shortcut actions called so far, in order

hookState == <<content, sources, relatedQuestions, status, isLoading,
               sessionId, threadId, error, conversation, currentQuery>>
refs == <<abortControllerRef, throttleTimerRef, timeouts, timerDue,
          pendingContentRef>>
decoderVars == <<stream, delivered, decoderPending, buffer, handedLines,
                 readerDone>>
viewVars == <<props, viewPc, viewPath, displayed, stagesRun, opened,
              clicked>>
pageVars == <<urlThread, threadFetches>>
rateVars == <<options, requestTimestamps, remainingRequests, resetTime,
              dateNow, accepted, lastResult>>
keyVars == <<keyStack, keyPc, actionsRun>>
\* the state the hook's own steps do not touch
aux == <<decoderVars, viewVars, pageVars, rateVars, keyVars>>
hookVars == <<content, sources, relatedQuestions, status, isLoading,
              sessionId, threadId, error, conversation, currentQuery,
              abortControllerRef, throttleTimerRef, timeouts, timerDue,
              pendingContentRef, ops, nOps, fetchCalls, inputs, mounted, now,
              lastFlushAt, lastCall, lastStep>>
vars == <<hookVars, aux>>

OpIds == 1..MaxInputs

NoOp == [kind |-> "none", pc |-> "Idle", aborted |-> FALSE,
         currentContent |-> << >>, currentSources |-> << >>,
         tokens |-> << >>, lastSources |-> << >>, commits |-> 0,
         errored |-> FALSE]

Step(k, i) == [kind |-> k, op |-> i]

\* ---------------------------------------------------------------- helpers
RECURSIVE Flatten(_)
Flatten(ss) == IF ss = << >> THEN << >> ELSE Head(ss) \o Flatten(Tail(ss))

IsPrefix(s, t) == Len(s) <= Len(t) /\ SubSeq(t, 1, Len(s)) = s

\* JS truthiness of a string-or-null
Falsy(s) == s = NULL \/ s = << >>

\* [...messages].reverse()
Reverse(msgs) == [k \in 1..Len(msgs) |-> msgs[Len(msgs) + 1 - k]]

\* what find() returns when nothing matches (undefined), as a Turn
NoMessage == [role |-> "undefined", content |-> Undefined, sources |-> Undefined]

\* list.find(m => m.role === r): the first match, or undefined
RECURSIVE Find(_, _)
Find(list, r) ==
  IF list = << >> THEN NoMessage
  ELSE IF Head(list).role = r THEN Head(list)
  ELSE Find(Tail(list), r)

\* mutant: find() on the list as given, which yields the first match
FirstOfRole(msgs, r) == Find(msgs, r)

\* [...messages].reverse().find(m => m.role === r)
LastOfRole(msgs, r) == Find(Reverse(msgs), r)

\* mutant: the new Turn is put in front of the earlier ones
prependUser(prev, query) == <<UserTurn(query)>> \o prev

\* mutant: the new Turn replaces the earlier ones
replaceByUser(prev, query) == <<UserTurn(query)>>

\* setConversation(prev => [...prev, { role: 'user', content: query }])
appendUser(prev, query) == Append(prev, UserTurn(query))

\* setConversation(prev => [...prev, { role: 'assistant', content, sources }])
appendAssistant(prev, c, srcs) == Append(prev, AssistantTurn(c, srcs))

\* mutant: the previous controller is left alone
AbortNothing(o) == o

\* mutant: abort() is always called on the first controller ever created
AbortOldest(o) ==
  IF abortControllerRef # 0
  THEN [o EXCEPT ![1].aborted = TRUE]
  ELSE o

\* controller.abort() on the controller the ref holds
AbortCurrent(o) ==
  IF abortControllerRef # 0
  THEN [o EXCEPT ![abortControllerRef].aborted = TRUE]
  ELSE o

InitHook ==
  /\ content = << >>
  /\ sources = << >>
  /\ relatedQuestions = << >>
  /\ status = << >>
  /\ isLoading = FALSE
  /\ sessionId = NULL
  /\ threadId = NULL
  /\ error = NULL
  /\ conversation = << >>
  /\ currentQuery = << >>
  /\ abortControllerRef = 0
  /\ throttleTimerRef = FALSE
  /\ timeouts = 0
  /\ timerDue = 0
  /\ now = 0
  /\ lastFlushAt = <<-1, -1>>
  /\ pendingContentRef = << >>
  /\ ops = [i \in OpIds |-> NoOp]
  /\ nOps = 0
  /\ fetchCalls = 0
  /\ inputs = 0
  /\ mounted = TRUE
  /\ lastCall = "none"
  /\ lastStep = Step("init", 0)

\* no stream is being decoded
InitDecoderIdle ==
  /\ stream = << >>
  /\ delivered = 0
  /\ decoderPending = << >>
  /\ buffer = << >>
  /\ handedLines = << >>
  /\ readerDone = FALSE

\* no message is being displayed
InitViewIdle ==
  /\ props = [content |-> << >>, sources |-> << >>, isStreaming |-> FALSE]
  /\ viewPc = "idle"
  /\ viewPath = "none"
  /\ displayed = << >>
  /\ stagesRun = << >>
  /\ opened = << >>
  /\ clicked = 0

\* the search page has no thread in its URL
InitPageIdle ==
  /\ urlThread = NULL
  /\ threadFetches = << >>

\* new Date(...) | null: null is NoDate
NoDate == -1

\* a useRateLimit hook that has not been called
InitRateIdle ==
  /\ options = [maxRequests |-> 1, windowMs |-> 1]
  /\ requestTimestamps = << >>
  /\ remainingRequests = 1
  /\ resetTime = NoDate
  /\ dateNow = 0
  /\ accepted = << >>
  /\ lastResult = [result |-> "none", at |-> 0]

\* no key is being handled
InitKeysIdle ==
  /\ keyStack = << >>
  /\ keyPc = "idle"
  /\ actionsRun = << >>

Init ==
  /\ InitHook
  /\ InitDecoderIdle
  /\ InitViewIdle
  /\ InitPageIdle
  /\ InitRateIdle
  /\ InitKeysIdle

\* ------------------------------------------------------- ContentThrottler
\* mutant: a value supplied while a timeout is pending is dropped
throttledSetContentDropping(newContent) ==
  IF throttleTimerRef
  THEN UNCHANGED <<pendingContentRef, throttleTimerRef, timeouts, timerDue>>
  ELSE /\ pendingContentRef' = newContent
       /\ throttleTimerRef' = TRUE
       /\ timeouts' = timeouts + 1
       /\ timerDue' = now + ThrottleMs

\* mutant: the timeout is scheduled without a delay
throttledSetContentNoDelay(newContent) ==
  /\ pendingContentRef' = newContent
  /\ IF throttleTimerRef
     THEN UNCHANGED <<throttleTimerRef, timeouts, timerDue>>
     ELSE /\ throttleTimerRef' = TRUE
          /\ timeouts' = timeouts + 1
          /\ timerDue' = now

\* mutant: every supplied value schedules a timeout of its own
throttledSetContentQueuing(newContent) ==
  /\ pendingContentRef' = newContent
  /\ throttleTimerRef' = TRUE
  /\ timeouts' = timeouts + 1
  /\ timerDue' = now + ThrottleMs

\* throttledSetContent(newContent): what it does to the refs and the timers
throttledSetContent(newContent) ==
  /\ pendingContentRef' = newContent
  /\ IF throttleTimerRef
     THEN UNCHANGED <<throttleTimerRef, timeouts, timerDue>>
     ELSE /\ throttleTimerRef' = TRUE
          /\ timeouts' = timeouts + 1
          /\ timerDue' = now + ThrottleMs

\* if (throttleTimerRef.current) { clearTimeout(...); ... = null }
clearThrottleTimer ==
  /\ throttleTimerRef' = FALSE
  /\ timeouts' = IF throttleTimerRef THEN timeouts - 1 ELSE timeouts
  /\ timerDue' = 0

\* the timeout callback scheduled by throttledSetContent
throttleFire ==
  /\ timeouts > 0
  /\ content' = pendingContentRef
  /\ throttleTimerRef' = FALSE
  /\ timeouts' = timeouts - 1
  /\ timerDue' = 0
  /\ lastFlushAt' = <<lastFlushAt[2], now>>
  /\ lastStep' = Step("throttleFire", 0)
  /\ UNCHANGED aux
  /\ UNCHANGED <<sources, relatedQuestions, status, isLoading, sessionId,
                 threadId, error, conversation, currentQuery,
                 abortControllerRef, pendingContentRef, ops, nOps,
                 fetchCalls, inputs, mounted, now, lastCall>>

\* ----------------------------------------------------- RequestCoordinator
reset ==
  /\ mounted
  /\ inputs < MaxInputs
  /\ inputs' = inputs + 1
  /\ content' = << >>
  /\ sources' = << >>
  /\ relatedQuestions' = << >>
  /\ status' = << >>
  /\ isLoading' = FALSE
  /\ error' = NULL
  /\ conversation' = << >>
  /\ currentQuery' = << >>
  /\ pendingContentRef' = << >>
  /\ clearThrottleTimer
  /\ lastStep' = Step("reset", 0)
  /\ UNCHANGED aux
  /\ lastCall' = "reset"
  /\ UNCHANGED <<sessionId, threadId, abortControllerRef, ops, nOps,
                 fetchCalls, mounted, now, lastFlushAt>>

loadThread(threadData) ==
  /\ mounted
  /\ inputs < MaxInputs
  /\ inputs' = inputs + 1
  /\ sessionId' = threadData.session_id
  /\ threadId' = threadData.id
  /\ conversation' = threadData.messages
  /\ LET lastAssistantMessage == LastOfRole(threadData.messages, "assistant")
         lastUserMessage == LastOfRole(threadData.messages, "user")
     IN /\ IF lastAssistantMessage # NoMessage
           THEN /\ content' = lastAssistantMessage.content
                /\ sources' = IF lastAssistantMessage.sources = Undefined
                              THEN << >>
                              ELSE lastAssistantMessage.sources
           ELSE UNCHANGED <<content, sources>>
        /\ IF lastUserMessage # NoMessage
           THEN currentQuery' = lastUserMessage.content
           ELSE UNCHANGED currentQuery
  /\ isLoading' = FALSE
  /\ status' = << >>
  /\ error' = NULL
  /\ lastStep' = Step("loadThread", 0)
  /\ UNCHANGED aux
  /\ lastCall' = "loadThread"
  /\ UNCHANGED <<relatedQuestions, abortControllerRef, throttleTimerRef,
                 timeouts, timerDue, pendingContentRef, ops, nOps, fetchCalls,
                 mounted, now, lastFlushAt>>

\* the cleanup of the unmount effect
unmount ==
  /\ mounted
  /\ inputs < MaxInputs
  /\ inputs' = inputs + 1
  /\ mounted' = FALSE
  /\ clearThrottleTimer
  /\ ops' = AbortCurrent(ops)
  /\ abortControllerRef' = 0
  /\ lastStep' = Step("unmount", 0)
  /\ UNCHANGED aux
  /\ lastCall' = "unmount"
  /\ UNCHANGED <<hookState, pendingContentRef, nOps, fetchCalls, now,
                 lastFlushAt>>

\* the closure a call of search/followUp creates, awaiting its fetch
NewOp(kind) == [NoOp EXCEPT !.kind = kind, !.pc = "Connecting"]

\* mutant: search leaves the error of the previous request in place
searchKeepsError(query, file) ==
  /\ mounted
  /\ inputs < MaxInputs
  /\ inputs' = inputs + 1
  /\ LET i == nOps + 1 IN
       /\ currentQuery' = query
       /\ content' = << >>
       /\ sources' = << >>
       /\ relatedQuestions' = << >>
       /\ isLoading' = TRUE
       /\ status' = <<"Connecting...">>
       /\ conversation' = appendUser(conversation, query)
       /\ abortControllerRef' = i
       /\ ops' = [AbortCurrent(ops) EXCEPT
                    ![i] = NewOp("search")]
       /\ nOps' = i
       /\ fetchCalls' = fetchCalls + 1
       /\ lastStep' = Step("search", i)
       /\ UNCHANGED aux
       /\ lastCall' = "search"
  /\ UNCHANGED <<sessionId, threadId, error, throttleTimerRef, timeouts,
                 timerDue, pendingContentRef, mounted, now, lastFlushAt>>

\* search(query, file) up to its first await: the fetch is issued last
search(query, file) ==
  /\ mounted
  /\ inputs < MaxInputs
  /\ inputs' = inputs + 1
  /\ LET i == nOps + 1 IN
       /\ currentQuery' = query
       /\ content' = << >>
       /\ sources' = << >>
       /\ relatedQuestions' = << >>
       /\ error' = NULL
       /\ isLoading' = TRUE
       /\ status' = <<"Connecting...">>
       /\ conversation' = appendUser(conversation, query)
       /\ abortControllerRef' = i
       /\ ops' = [AbortCurrent(ops) EXCEPT
                    ![i] = NewOp("search")]
       /\ nOps' = i
       /\ fetchCalls' = fetchCalls + 1
       /\ lastStep' = Step("search", i)
       /\ UNCHANGED aux
       /\ lastCall' = "search"
  /\ UNCHANGED <<sessionId, threadId, throttleTimerRef, timeouts, timerDue,
                 pendingContentRef, mounted, now, lastFlushAt>>

\* mutant: followUp without its session guard
followUpUnguarded(query) ==
  /\ mounted
  /\ inputs < MaxInputs
  /\ inputs' = inputs + 1
  /\ LET i == nOps + 1 IN
       /\ currentQuery' = query
       /\ conversation' = appendUser(conversation, query)
       /\ content' = << >>
       /\ sources' = << >>
       /\ error' = NULL
       /\ isLoading' = TRUE
       /\ status' = <<"Thinking...">>
       /\ abortControllerRef' = i
       /\ ops' = [AbortCurrent(ops) EXCEPT ![i] = NewOp("followUp")]
       /\ nOps' = i
       /\ fetchCalls' = fetchCalls + 1
       /\ lastStep' = Step("followUp", i)
       /\ UNCHANGED aux
       /\ lastCall' = "followUp"
  /\ UNCHANGED <<relatedQuestions, sessionId, threadId, throttleTimerRef,
                 timeouts, timerDue, pendingContentRef, mounted, now,
                 lastFlushAt>>

\* followUp(query) up to its first await
followUp(query) ==
  /\ mounted
  /\ inputs < MaxInputs
  /\ inputs' = inputs + 1
  /\ IF Falsy(sessionId)
     THEN \* console.error(...); return
          /\ lastStep' = Step("followUp", 0)
          /\ UNCHANGED aux
          /\ lastCall' = "followUp"
          /\ UNCHANGED <<hookState, refs, ops, nOps, fetchCalls,
                         mounted, now, lastFlushAt>>
     ELSE /\ LET i == nOps + 1 IN
               /\ currentQuery' = query
               /\ conversation' = appendUser(conversation, query)
               /\ content' = << >>
               /\ sources' = << >>
               /\ error' = NULL
               /\ isLoading' = TRUE
               /\ status' = <<"Thinking...">>
               /\ abortControllerRef' = i
               /\ ops' = [AbortCurrent(ops) EXCEPT
                            ![i] = NewOp("followUp")]
               /\ nOps' = i
               /\ fetchCalls' = fetchCalls + 1
               /\ lastStep' = Step("followUp", i)
               /\ UNCHANGED aux
               /\ lastCall' = "followUp"
          /\ UNCHANGED <<relatedQuestions, sessionId, threadId,
                         throttleTimerRef, timeouts, timerDue,
                         pendingContentRef,
                         mounted, now, lastFlushAt>>

\* ------------------------------------------- one operation's continuation
\* await fetch(...) resolves with response.ok; the reader is created
\* (followUp clears content and sources once more at this point)
fetchOk(i) ==
  /\ ops[i].pc = "Connecting"
  /\ ~ops[i].aborted
  /\ ops' = [ops EXCEPT ![i].pc = "Streaming"]
  /\ IF ops[i].kind = "followUp"
     THEN content' = << >> /\ sources' = << >>
     ELSE UNCHANGED <<content, sources>>
  /\ lastStep' = Step("fetchOk", i)
  /\ UNCHANGED aux
  /\ UNCHANGED <<relatedQuestions, status, isLoading, sessionId, threadId,
                 error, conversation, currentQuery, refs, nOps, fetchCalls,
                 inputs, mounted, now, lastFlushAt, lastCall>>

\* mutant: the catch handler reports the failure but leaves isLoading set
catchFailureStillLoading(i, thrown, fallback) ==
  /\ error' = IF thrown = NotAnError \/ thrown = << >> THEN fallback
              ELSE thrown
  /\ status' = << >>
  /\ ops' = [ops EXCEPT ![i].pc = "Failed"]
  /\ UNCHANGED <<content, sources, relatedQuestions, isLoading, sessionId,
                 threadId, conversation, currentQuery, refs, nOps,
                 fetchCalls, inputs, mounted, now, lastFlushAt, lastCall>>

\* the catch handler for a thrown value that is not an AbortError
catchFailure(i, thrown, fallback) ==
  /\ error' = IF thrown = NotAnError \/ thrown = << >> THEN fallback
              ELSE thrown
  /\ isLoading' = FALSE
  /\ status' = << >>
  /\ ops' = [ops EXCEPT ![i].pc = "Failed"]
  /\ UNCHANGED <<content, sources, relatedQuestions, sessionId, threadId,
                 conversation, currentQuery, refs, nOps, fetchCalls,
                 inputs, mounted, now, lastFlushAt, lastCall>>

Fallback(i) ==
  IF ops[i].kind = "search" THEN <<"An error occurred during search">>
  ELSE <<"An error occurred during follow-up">>

\* fetch rejects (network failure) or resolves with !response.ok
fetchFail(i, thrown) ==
  /\ ops[i].pc = "Connecting"
  /\ ~ops[i].aborted
  /\ catchFailure(i, thrown, Fallback(i))
  /\ lastStep' = Step("fetchFail", i)
  /\ UNCHANGED aux

\* reader.read() rejects with something other than an AbortError
readFail(i, thrown) ==
  /\ ops[i].pc = "Streaming"
  /\ ~ops[i].aborted
  /\ catchFailure(i, thrown, Fallback(i))
  /\ lastStep' = Step("readFail", i)
  /\ UNCHANGED aux

\* mutant: the AbortError is handled like any other Error
catchAbortReported(i) ==
  /\ ops[i].pc \in {"Connecting", "Streaming"}
  /\ ops[i].aborted
  /\ catchFailure(i, <<"The operation was aborted.">>, Fallback(i))
  /\ lastStep' = Step("catchAbort", i)
  /\ UNCHANGED aux

\* the signal has fired: the pending fetch or read rejects with an
\* AbortError and the catch handler only logs
catchAbort(i) ==
  /\ ops[i].pc \in {"Connecting", "Streaming"}
  /\ ops[i].aborted
  /\ ops' = [ops EXCEPT ![i].pc = "Aborted"]
  /\ lastStep' = Step("catchAbort", i)
  /\ UNCHANGED aux
  /\ UNCHANGED <<hookState, refs, nOps, fetchCalls, inputs, mounted, now,
                 lastFlushAt, lastCall>>

\* reader.read() reports done: the loop is left and the function returns
streamEnd(i) ==
  /\ ops[i].pc = "Streaming"
  /\ ~ops[i].aborted
  /\ ops' = [ops EXCEPT ![i].pc = "Ended"]
  /\ lastStep' = Step("streamEnd", i)
  /\ UNCHANGED aux
  /\ UNCHANGED <<hookState, refs, nOps, fetchCalls, inputs, mounted, now,
                 lastFlushAt, lastCall>>

\* --------------------------------------------------------- EventDispatcher
\* a complete line reaches the dispatch loop of operation i
CanDispatch(i) ==
  /\ ops[i].pc = "Streaming"
  /\ ~ops[i].aborted
  /\ inputs < MaxInputs

Dispatched(k, i) ==
  /\ inputs' = inputs + 1
  /\ lastStep' = Step(k, i)
  /\ UNCHANGED aux
  /\ UNCHANGED <<nOps, fetchCalls, mounted, now, lastFlushAt, lastCall,
                 abortControllerRef>>

\* case 'session_id' / 'thread_id': search only; followUp has no such case
onSessionId(i, id) ==
  /\ CanDispatch(i)
  /\ sessionId' = IF ops[i].kind = "search" THEN id ELSE sessionId
  /\ Dispatched("session_id", i)
  /\ UNCHANGED <<content, sources, relatedQuestions, status, isLoading,
                 threadId, error, conversation, currentQuery,
                 throttleTimerRef, timeouts, timerDue, pendingContentRef, ops>>

onThreadId(i, id) ==
  /\ CanDispatch(i)
  /\ threadId' = IF ops[i].kind = "search" THEN id ELSE threadId
  /\ Dispatched("thread_id", i)
  /\ UNCHANGED <<content, sources, relatedQuestions, status, isLoading,
                 sessionId, error, conversation, currentQuery,
                 throttleTimerRef, timeouts, timerDue, pendingContentRef, ops>>

onStatus(i, message) ==
  /\ CanDispatch(i)
  /\ status' = message
  /\ Dispatched("status", i)
  /\ UNCHANGED <<content, sources, relatedQuestions, isLoading, sessionId,
                 threadId, error, conversation, currentQuery,
                 throttleTimerRef, timeouts, timerDue, pendingContentRef, ops>>

\* mutant: the payload is put in front of the buffer
prependToken(currentContent, payload) == payload \o currentContent

\* currentContent += data.content
appendToken(currentContent, payload) == currentContent \o payload

onToken(i, payload) ==
  /\ CanDispatch(i)
  /\ LET c == appendToken(ops[i].currentContent, payload) IN
       /\ ops' = [ops EXCEPT ![i].currentContent = c,
                             ![i].tokens = Append(@, payload)]
       /\ throttledSetContent(c)
  /\ Dispatched("token", i)
  /\ UNCHANGED hookState

onSources(i, list) ==
  /\ CanDispatch(i)
  /\ ops' = [ops EXCEPT ![i].currentSources = list,
                        ![i].lastSources = list]
  /\ sources' = list
  /\ status' = << >>
  /\ Dispatched("sources", i)
  /\ UNCHANGED <<content, relatedQuestions, isLoading, sessionId, threadId,
                 error, conversation, currentQuery, throttleTimerRef,
                 timeouts, timerDue, pendingContentRef>>

onRelatedQuestions(i, questions) ==
  /\ CanDispatch(i)
  /\ relatedQuestions' = questions
  /\ Dispatched("related_questions", i)
  /\ UNCHANGED <<content, sources, status, isLoading, sessionId, threadId,
                 error, conversation, currentQuery, throttleTimerRef,
                 timeouts, timerDue, pendingContentRef, ops>>

\* mutant: the Turn is built from the content and sources the hook shows,
\* which every operation writes to
onDoneFromState(i) ==
  /\ CanDispatch(i)
  /\ isLoading' = FALSE
  /\ status' = << >>
  /\ conversation' = appendAssistant(conversation, content, sources)
  /\ ops' = [ops EXCEPT ![i].commits = @ + 1]
  /\ Dispatched("done", i)
  /\ UNCHANGED <<content, sources, relatedQuestions, sessionId, threadId,
                 error, currentQuery, throttleTimerRef, timeouts, timerDue,
                 pendingContentRef>>

onDone(i) ==
  /\ CanDispatch(i)
  /\ isLoading' = FALSE
  /\ status' = << >>
  /\ conversation' = appendAssistant(conversation, ops[i].currentContent,
                                     ops[i].currentSources)
  /\ ops' = [ops EXCEPT ![i].commits = @ + 1]
  /\ Dispatched("done", i)
  /\ UNCHANGED <<content, sources, relatedQuestions, sessionId, threadId,
                 error, currentQuery, throttleTimerRef, timeouts, timerDue,
                 pendingContentRef>>

\* mutant: the error case leaves isLoading set
onErrorKeepsLoading(i, message) ==
  /\ CanDispatch(i)
  /\ error' = message
  /\ status' = << >>
  /\ ops' = [ops EXCEPT ![i].errored = TRUE]
  /\ Dispatched("error", i)
  /\ UNCHANGED <<content, sources, relatedQuestions, isLoading, sessionId,
                 threadId, conversation, currentQuery, throttleTimerRef,
                 timeouts, timerDue, pendingContentRef>>

onError(i, message) ==
  /\ CanDispatch(i)
  /\ error' = message
  /\ isLoading' = FALSE
  /\ status' = << >>
  /\ ops' = [ops EXCEPT ![i].errored = TRUE]
  /\ Dispatched("error", i)
  /\ UNCHANGED <<content, sources, relatedQuestions, sessionId, threadId,
                 conversation, currentQuery, throttleTimerRef, timeouts,
                 timerDue, pendingContentRef>>

\* a line without the 'data: ' prefix, a payload JSON.parse rejects, or a
\* parsed payload whose type matches no case
IgnoredLines == {"not_data", "malformed", "unknown_type"}

\* mutant: the switch has a default branch that ends the loading state
onIgnoredDefaultBranch(i, what) ==
  /\ CanDispatch(i)
  /\ Dispatched(what, i)
  /\ isLoading' = IF what = "unknown_type" THEN FALSE ELSE isLoading
  /\ UNCHANGED <<content, sources, relatedQuestions, status, sessionId,
                 threadId, error, conversation, currentQuery,
                 throttleTimerRef, timeouts, timerDue, pendingContentRef, ops>>

\* mutant: no try/catch around JSON.parse, the SyntaxError reaches the
\* catch handler of the operation
onIgnoredFatal(i, what) ==
  /\ CanDispatch(i)
  /\ Dispatched(what, i)
  /\ IF what = "malformed"
     THEN /\ error' = <<"Unexpected token">>
          /\ isLoading' = FALSE
          /\ status' = << >>
          /\ ops' = [ops EXCEPT ![i].pc = "Failed"]
          /\ UNCHANGED <<content, sources, relatedQuestions, sessionId,
                         threadId, conversation, currentQuery>>
     ELSE UNCHANGED <<hookState, ops>>
  /\ UNCHANGED <<throttleTimerRef, timeouts, timerDue, pendingContentRef>>

onIgnored(i, what) ==
  /\ CanDispatch(i)
  /\ Dispatched(what, i)
  /\ UNCHANGED <<hookState, throttleTimerRef, timeouts, timerDue,
                 pendingContentRef, ops>>

Next ==
  \/ \E q \in Queries, f \in BOOLEAN : search(q, f)
  \/ \E t \in Threads : loadThread(t)
  \/ \E q \in Queries : followUp(q)
  \/ reset
  \/ unmount
  \/ throttleFire
  \/ \E i \in OpIds : fetchOk(i)
  \/ \E i \in OpIds, x \in Thrown : fetchFail(i, x)
  \/ \E i \in OpIds, x \in Thrown : readFail(i, x)
  \/ \E i \in OpIds : catchAbort(i)
  \/ \E i \in OpIds : streamEnd(i)
  \/ \E i \in OpIds, id \in SessionIds : onSessionId(i, id)
  \/ \E i \in OpIds, id \in ThreadIds : onThreadId(i, id)
  \/ \E i \in OpIds, m \in StatusMessages : onStatus(i, m)
  \/ \E i \in OpIds, t \in TokenPayloads : onToken(i, t)
  \/ \E i \in OpIds, l \in SourceLists : onSources(i, l)
  \/ \E i \in OpIds, q \in QuestionLists : onRelatedQuestions(i, q)
  \/ \E i \in OpIds : onDone(i)
  \/ \E i \in OpIds, m \in ErrorMessages : onError(i, m)
  \/ \E i \in OpIds, w \in IgnoredLines : onIgnored(i, w)

Spec == Init /\ [][Next]_vars

\* a timeout that setTimeout has scheduled and clearTimeout has not
\* cancelled runs: the event loop never starves the timer queue
LiveSpec == Init /\ [][Next]_vars /\ WF_vars(throttleFire)

\* ------------------------------------------------------- the model in time
\* Spec leaves the clock at 0 and lets the timeout callback run at any
\* point after it was scheduled; SpecTimed lets time pass in steps of 1 ms
\* and runs the callback no earlier than the delay given to setTimeout.
\* What the token frames carry does not matter to the timing: one payload.
tick ==
  /\ now < MaxTime
  /\ now' = now + 1
  /\ UNCHANGED <<hookState, abortControllerRef, throttleTimerRef, timeouts,
                 timerDue, pendingContentRef, ops, nOps, fetchCalls, inputs,
                 mounted, lastFlushAt, lastCall, lastStep, aux>>

\* setTimeout(callback, 33): the callback runs once the delay has elapsed
timedFire ==
  /\ now >= timerDue
  /\ throttleFire

TimedPayloads == {<<"a">>}

NextTimed ==
  \/ tick
  \/ timedFire
  \/ \E q \in Queries, f \in BOOLEAN : search(q, f)
  \/ reset
  \/ \E i \in OpIds : fetchOk(i)
  \/ \E i \in OpIds, t \in TimedPayloads : onToken(i, t)

SpecTimed == Init /\ [][NextTimed]_vars

\* ---------------------------------------------------------- StreamDecoder
\* The read loop of search and followUp, from the bytes of the body to the
\* lines the for loop runs on.  Bytes: an ASCII letter, the newline 0x0A,
\* and the two bytes 0xC3 0xA9 of the character U+00E9.
Bytes == {"d", "NL", "C3", "A9"}
ByteStreams == UNION {[1..n -> Bytes] : n \in 0..MaxBytes}

\* what the decoder puts out for a byte sequence that is not UTF-8
Replacement == "FFFD"

\* the UTF-8 decoder on one byte; pending holds the lead byte of a
\* character whose continuation byte has not arrived
decodeByte(pending, b) ==
  IF pending = << >>
  THEN CASE b = "C3" -> [out |-> << >>, pending |-> <<"C3">>]
         [] b = "A9" -> [out |-> <<Replacement>>, pending |-> << >>]
         [] OTHER    -> [out |-> <<b>>, pending |-> << >>]
  ELSE CASE b = "A9" -> [out |-> <<"E9">>, pending |-> << >>]
         [] b = "C3" -> [out |-> <<Replacement>>, pending |-> <<"C3">>]
         [] OTHER    -> [out |-> <<Replacement, b>>, pending |-> << >>]

\* decoder.decode(value, { stream: true }) on a decoder that holds pending
RECURSIVE decodeStream(_, _)
decodeStream(pending, value) ==
  IF value = << >> THEN [out |-> << >>, pending |-> pending]
  ELSE LET first == decodeByte(pending, Head(value))
           rest == decodeStream(first.pending, Tail(value))
       IN [out |-> first.out \o rest.out, pending |-> rest.pending]

\* mutant: every chunk is decoded on its own, without { stream: true }
decodeAlone(pending, value) ==
  LET r == decodeStream(<< >>, value)
  IN [out |-> IF r.pending = << >> THEN r.out
              ELSE r.out \o <<Replacement>>,
      pending |-> << >>]

\* decoder.decode(value, { stream: true })
decode(pending, value) == decodeStream(pending, value)

\* buffer.split('\n')
RECURSIVE split(_)
split(text) ==
  IF \A k \in 1..Len(text) : text[k] # "NL" THEN <<text>>
  ELSE LET k == CHOOSE j \in 1..Len(text) :
                  /\ text[j] = "NL"
                  /\ \A h \in 1..(j - 1) : text[h] # "NL"
       IN <<SubSeq(text, 1, k - 1)>> \o split(SubSeq(text, k + 1, Len(text)))

\* mutant: nothing is kept back, the last fragment is handed over too
linesAfterPopNone(lines) == lines

\* lines after lines.pop(): all but the last element
linesAfterPop(lines) == SubSeq(lines, 1, Len(lines) - 1)

\* const { done, value } = await reader.read() with a chunk of n bytes,
\* down to the end of the for loop over its lines
readChunk(n) ==
  /\ ~readerDone
  /\ delivered + n <= Len(stream)
  /\ LET value == SubSeq(stream, delivered + 1, delivered + n)
         decoded == decode(decoderPending, value)
         lines == split(buffer \o decoded.out)
     IN /\ decoderPending' = decoded.pending
        /\ buffer' = lines[Len(lines)]
        /\ handedLines' = handedLines \o linesAfterPop(lines)
  /\ delivered' = delivered + n
  /\ UNCHANGED <<stream, readerDone, hookVars, viewVars, pageVars, rateVars, keyVars>>

\* reader.read() reports done: if (done) break
readDone ==
  /\ ~readerDone
  /\ delivered = Len(stream)
  /\ readerDone' = TRUE
  /\ UNCHANGED <<stream, delivered, decoderPending, buffer, handedLines,
                 hookVars, viewVars, pageVars, rateVars, keyVars>>

InitDecoder ==
  /\ InitHook
  /\ InitViewIdle
  /\ InitPageIdle
  /\ InitRateIdle
  /\ InitKeysIdle
  /\ stream \in ByteStreams
  /\ delivered = 0
  /\ decoderPending = << >>
  /\ buffer = << >>
  /\ handedLines = << >>
  /\ readerDone = FALSE

NextDecoder ==
  \/ \E n \in 1..MaxBytes : readChunk(n)
  \/ readDone

SpecDecoder == InitDecoder /\ [][NextDecoder]_vars

\* -------------------------------------------------------- CitationRenderer
\* Markup is a sequence of pieces: text, a marker [n], or an element with
\* its tag and the names of its attributes.  The element the renderer
\* writes for a marker also carries the source index and the values of its
\* data-url and title attributes; raw says that these values are still as
\* written in the markup, before an HTML parser has read them.
Piece(k, tag, attrs, n, url, title, raw) ==
  [k |-> k, tag |-> tag, attrs |-> attrs, n |-> n, url |-> url,
   title |-> title, raw |-> raw]
Text == Piece("text", "", {}, 0, << >>, << >>, FALSE)
Marker(n) == Piece("marker", "", {}, n, << >>, << >>, FALSE)
Element(tag, attrs) == Piece("el", tag, attrs, 0, << >>, << >>, FALSE)

\* the pieces message content is made of: text, markers, a paragraph, a
\* script element, a link with an event handler and a data attribute
ContentPieces ==
  {Text, Marker(0), Marker(1), Marker(3), Element("p", {}),
   Element("script", {}), Element("a", {"href", "onclick", "data-x"})}
Contents == UNION {[1..n -> ContentPieces] : n \in 0..MaxContent}

\* Attribute values are sequences of symbols: a scheme, plain text "x",
\* the characters QUOT ("), APOS ('), AMP (&), and the character
\* references &quot; &#39; &amp; written out as text.
Source(url, title) == [url |-> url, title |-> title]
SourcePool ==
  {Source(<<"https:", "x">>, <<"T">>),
   Source(<<"javascript:", "QUOT", "x">>, <<"APOS", "T">>),
   Source(<<"https:", "x", "&amp;", "x">>, <<"T">>),
   Source(<<"x">>, <<"T">>)}
SourceListPool == UNION {[1..n -> SourcePool] : n \in 0..MaxSources}

ALLOWED_TAGS ==
  {"p", "br", "strong", "em", "ul", "ol", "li", "h1", "h2", "h3", "h4",
   "h5", "h6", "a", "code", "pre", "blockquote", "sup"}
ALLOWED_ATTR ==
  {"href", "target", "rel", "class", "data-source-index", "data-url",
   "data-title", "title"}
ALLOW_DATA_ATTR == TRUE

\* the attribute names of the model that begin with data-
DataAttrs == {"data-x", "data-source-index", "data-url", "data-title"}

\* .replace(/"/g, '&quot;').replace(/'/g, '&#39;')
escapeAttr(value) ==
  [i \in 1..Len(value) |->
     CASE value[i] = "QUOT" -> "&quot;"
       [] value[i] = "APOS" -> "&#39;"
       [] OTHER -> value[i]]

\* an HTML parser reading an attribute value: character references are
\* replaced by their characters
parseAttr(written) ==
  [i \in 1..Len(written) |->
     CASE written[i] = "&quot;" -> "QUOT"
       [] written[i] = "&#39;" -> "APOS"
       [] written[i] = "&amp;" -> "AMP"
       [] OTHER -> written[i]]

\* the attributes of the <sup> the renderer writes
CitationAttrs ==
  {"class", "data-source-index", "data-url", "data-title", "title"}

\* htmlContent.replace(citationRegex, (match, num) => ...)
replaceCitations(htmlContent, srcs) ==
  [i \in 1..Len(htmlContent) |->
     LET match == htmlContent[i]
         index == match.n - 1
     IN IF match.k = "marker" /\ index >= 0 /\ index < Len(srcs)
        THEN Piece("cite", "sup", CitationAttrs, index,
                   escapeAttr(srcs[index + 1].url),
                   escapeAttr(srcs[index + 1].title), TRUE)
        ELSE match]

\* DOMPurify.sanitize with the options of the call: which elements stay
tagAllowed(piece) ==
  piece.k \in {"text", "marker"} \/ piece.tag \in ALLOWED_TAGS

\* ... and which attributes stay on an element that stays
attrAllowed(name) ==
  name \in ALLOWED_ATTR \/ (ALLOW_DATA_ATTR /\ name \in DataAttrs)

sanitizePiece(piece) ==
  LET attrs == {a \in piece.attrs : attrAllowed(a)}
      read(value) == IF piece.raw THEN parseAttr(value) ELSE value
  IN [piece EXCEPT !.attrs = attrs,
                   !.url = IF "data-url" \in attrs THEN read(@) ELSE << >>,
                   !.title = IF "title" \in attrs THEN read(@) ELSE << >>,
                   !.raw = FALSE]

\* DOMPurify.sanitize(html, { ALLOWED_TAGS, ALLOWED_ATTR, ALLOW_DATA_ATTR })
sanitize(html) ==
  LET kept == SelectSeq(html, tagAllowed)
  IN [i \in 1..Len(kept) |-> sanitizePiece(kept[i])]

\* the calls renderContentWithCitations makes on its input, in order
citationStages(srcs) ==
  IF Len(srcs) = 0 THEN <<"sanitize">> ELSE <<"replace", "sanitize">>

applyStage(stage, html, srcs) ==
  IF stage = "replace" THEN replaceCitations(html, srcs) ELSE sanitize(html)

RECURSIVE runStages(_, _, _)
runStages(stages, html, srcs) ==
  IF stages = << >> THEN html
  ELSE runStages(Tail(stages), applyStage(Head(stages), html, srcs), srcs)

renderContentWithCitations(htmlContent, srcs) ==
  runStages(citationStages(srcs), htmlContent, srcs)

\* ConversationMessage: what is put into the page for an assistant message
renderedContent(messageContent, isStreaming) ==
  IF isStreaming THEN messageContent ELSE sanitize(messageContent)

\* the calls ConversationMessage makes on its content
messageStages(isStreaming) ==
  IF isStreaming THEN << >> ELSE <<"sanitize">>

\* new URL(url): a value without a scheme does not parse
Schemes == {"https:", "http:", "javascript:"}
urlParses(url) == url # << >> /\ url[1] \in Schemes
protocol(url) == url[1]

\* mutant: any URL that parses is opened
mayOpenAnyProtocol(url) == urlParses(url)

\* the test handleCitationClick makes before window.open
mayOpen(url) == urlParses(url) /\ protocol(url) \in {"http:", "https:"}

\* SearchResults shows a message of the conversation
showTurn ==
  /\ viewPc = "input"
  /\ ~props.isStreaming
  /\ displayed' = renderedContent(
                    renderContentWithCitations(props.content, props.sources),
                    FALSE)
  /\ stagesRun' = citationStages(props.sources) \o messageStages(FALSE)
  /\ viewPc' = "shown"
  /\ viewPath' = "turn"
  /\ UNCHANGED <<props, opened, clicked, hookVars, decoderVars, pageVars, rateVars,
                 keyVars>>

\* SearchResults shows the streaming content (isLoading && content)
showStreaming ==
  /\ viewPc = "input"
  /\ props.isStreaming
  /\ displayed' = renderedContent(
                    renderContentWithCitations(props.content, props.sources),
                    TRUE)
  /\ stagesRun' = citationStages(props.sources) \o messageStages(TRUE)
  /\ viewPc' = "shown"
  /\ viewPath' = "streaming"
  /\ UNCHANGED <<props, opened, clicked, hookVars, decoderVars, pageVars, rateVars,
                 keyVars>>

\* the shared-conversation page shows a message of the thread:
\* ConversationMessage is given message.content as it came
showShared ==
  /\ viewPc = "input"
  /\ ~props.isStreaming
  /\ displayed' = renderedContent(props.content, FALSE)
  /\ stagesRun' = messageStages(FALSE)
  /\ viewPc' = "shown"
  /\ viewPath' = "shared"
  /\ UNCHANGED <<props, opened, clicked, hookVars, decoderVars, pageVars,
                 rateVars, keyVars>>

\* the single-result display of components/SearchResults.tsx:
\* dangerouslySetInnerHTML={{ __html: results.summary }}
showSummary ==
  /\ viewPc = "input"
  /\ ~props.isStreaming
  /\ displayed' = props.content
  /\ stagesRun' = << >>
  /\ viewPc' = "shown"
  /\ viewPath' = "summary"
  /\ UNCHANGED <<props, opened, clicked, hookVars, decoderVars, pageVars,
                 rateVars, keyVars>>

\* a click on the k-th piece of a message ConversationMessage shows and
\* that is not streaming: the delegated listener handleCitationClick runs
citationClick(k) ==
  /\ viewPc = "shown"
  /\ viewPath \in {"turn", "shared"}
  /\ ~props.isStreaming
  /\ k \in 1..Len(displayed)
  /\ LET target == displayed[k]
         isCitation == target.k = "cite" /\ "class" \in target.attrs
         url == IF "data-url" \in target.attrs THEN target.url ELSE << >>
     IN opened' = IF isCitation /\ url # << >> /\ mayOpen(url)
                  THEN Append(opened, url)
                  ELSE opened
  /\ clicked' = k
  /\ viewPc' = "clicked"
  /\ UNCHANGED <<props, viewPath, displayed, stagesRun, hookVars,
                 decoderVars, pageVars, rateVars, keyVars>>

\* a message to show: any content with any source list; the streaming
\* branch is only taken for non-empty content
InitView ==
  /\ InitHook
  /\ InitDecoderIdle
  /\ InitPageIdle
  /\ InitRateIdle
  /\ InitKeysIdle
  /\ props \in [content : Contents, sources : SourceListPool,
                isStreaming : BOOLEAN]
  /\ props.isStreaming => props.content # << >>
  /\ viewPc = "input"
  /\ viewPath = "none"
  /\ displayed = << >>
  /\ stagesRun = << >>
  /\ opened = << >>
  /\ clicked = 0

NextView ==
  \/ showTurn
  \/ showStreaming
  \/ showShared
  \/ showSummary
  \/ \E k \in 1..MaxContent : citationClick(k)

SpecView == InitView /\ [][NextView]_vars

\* ---------------------------------------------------------- the search page
\* SearchContent: the effect on searchParams, for a URL that names a thread
\* what GET /api/threads/<id> answers
ThreadById(id) == CHOOSE t \in Threads : t.id = id

ThreadFetch(id) == [thread |-> id, state |-> "pending"]

\* the URL changes to ?threadId=<id>: the effect runs and issues the fetch
navigate(id) ==
  /\ mounted
  /\ Len(threadFetches) < MaxNavigations
  /\ id # urlThread
  /\ urlThread' = id
  /\ threadFetches' = Append(threadFetches, ThreadFetch(id))
  /\ UNCHANGED <<hookVars, decoderVars, viewVars, rateVars, keyVars>>

\* the k-th fetch resolves with res.ok and its JSON:
\* .then(thread => { reset(); loadThread({ id, session_id, messages }) })
threadLoaded(k) ==
  /\ mounted
  /\ k \in 1..Len(threadFetches)
  /\ threadFetches[k].state = "pending"
  /\ threadFetches' = [threadFetches EXCEPT ![k].state = "loaded"]
  /\ LET threadData == ThreadById(threadFetches[k].thread)
         lastAssistantMessage == LastOfRole(threadData.messages, "assistant")
         lastUserMessage == LastOfRole(threadData.messages, "user")
     IN \* reset()
        /\ relatedQuestions' = << >>
        /\ pendingContentRef' = << >>
        /\ clearThrottleTimer
        \* loadThread(...), on the state reset() has left
        /\ sessionId' = threadData.session_id
        /\ threadId' = threadData.id
        /\ conversation' = threadData.messages
        /\ content' = IF lastAssistantMessage # NoMessage
                      THEN lastAssistantMessage.content
                      ELSE << >>
        /\ sources' = IF lastAssistantMessage # NoMessage
                         /\ lastAssistantMessage.sources # Undefined
                      THEN lastAssistantMessage.sources
                      ELSE << >>
        /\ currentQuery' = IF lastUserMessage # NoMessage
                           THEN lastUserMessage.content
                           ELSE << >>
  /\ isLoading' = FALSE
  /\ status' = << >>
  /\ error' = NULL
  /\ inputs' = inputs + 2
  /\ lastCall' = "loadThread"
  /\ lastStep' = Step("loadThread", 0)
  /\ UNCHANGED <<abortControllerRef, ops, nOps, fetchCalls, mounted, now,
                 lastFlushAt, urlThread, decoderVars, viewVars, rateVars,
                 keyVars>>

\* the k-th fetch fails or answers !res.ok: .catch(...) shows a toast
threadFailed(k) ==
  /\ k \in 1..Len(threadFetches)
  /\ threadFetches[k].state = "pending"
  /\ threadFetches' = [threadFetches EXCEPT ![k].state = "failed"]
  /\ UNCHANGED <<hookVars, urlThread, decoderVars, viewVars, rateVars,
                 keyVars>>

NextPage ==
  \/ \E t \in Threads : navigate(t.id)
  \/ \E k \in 1..MaxNavigations : threadLoaded(k)
  \/ \E k \in 1..MaxNavigations : threadFailed(k)

SpecPage == Init /\ [][NextPage]_vars

\* ------------------------------------------------------------- useRateLimit
\* the limits the hook is created with
RateLimitOptions ==
  [maxRequests : 1..MaxLimit, windowMs : 1..MaxWindow]

NoCall == [result |-> "none", at |-> 0]

\* time passes between two calls
passTime ==
  /\ dateNow < MaxClock
  /\ dateNow' = dateNow + 1
  /\ UNCHANGED <<options, requestTimestamps, remainingRequests, resetTime,
                 accepted, lastResult>>
  /\ UNCHANGED <<hookVars, decoderVars, viewVars, pageVars, keyVars>>

\* requestTimestamps.current.filter(timestamp => timestamp > windowStart)
inWindow(timestamps, windowStart) ==
  LET keep(timestamp) == timestamp > windowStart
  IN SelectSeq(timestamps, keep)

\* mutant: the limit is tested with > in place of >=
limitExceededOffByOne(timestamps, maxRequests) ==
  Len(timestamps) > maxRequests

\* if (requestTimestamps.current.length >= maxRequests)
limitExceeded(timestamps, maxRequests) ==
  Len(timestamps) >= maxRequests

checkLimit ==
  /\ LET windowStart == dateNow - options.windowMs
         current == inWindow(requestTimestamps, windowStart)
     IN IF limitExceeded(current, options.maxRequests)
        THEN /\ requestTimestamps' = current
             /\ resetTime' = current[1] + options.windowMs
             /\ remainingRequests' = 0
             /\ lastResult' = [result |-> "false", at |-> dateNow]
             /\ UNCHANGED accepted
        ELSE /\ requestTimestamps' = Append(current, dateNow)
             /\ remainingRequests' = options.maxRequests - (Len(current) + 1)
             /\ resetTime' = NoDate
             /\ lastResult' = [result |-> "true", at |-> dateNow]
             /\ accepted' = Append(accepted, dateNow)
  /\ UNCHANGED <<options, dateNow>>
  /\ UNCHANGED <<hookVars, decoderVars, viewVars, pageVars, keyVars>>

InitRate ==
  /\ InitHook
  /\ InitDecoderIdle
  /\ InitViewIdle
  /\ InitPageIdle
  /\ InitKeysIdle
  /\ options \in RateLimitOptions
  /\ requestTimestamps = << >>
  /\ remainingRequests = options.maxRequests
  /\ resetTime = NoDate
  /\ dateNow = 0
  /\ accepted = << >>
  /\ lastResult = NoCall

NextRate ==
  \/ passTime
  \/ checkLimit

SpecRate == InitRate /\ [][NextRate]_vars

\* ----------------------------------------------------- useKeyboardShortcuts
\* a keydown event: its key, whether metaKey or ctrlKey is held, and
\* whether its target is an input or a textarea
KeyEvent(key, meta, inInput) ==
  [key |-> key, meta |-> meta, inInput |-> inInput]
Keys == {"Escape", "k", "/", "a"}
KeyEvents == [key : Keys, meta : BOOLEAN, inInput : BOOLEAN]

\* new KeyboardEvent('keydown', { key: 'Escape' }) dispatched on document
SyntheticEscape == KeyEvent("Escape", FALSE, FALSE)

\* the shortcuts array: key, whether metaKey is asked for, and the action
Shortcuts ==
  {[key |-> "k", metaKey |-> TRUE, action |-> "newChat"],
   [key |-> "/", metaKey |-> TRUE, action |-> "focusSearch"],
   [key |-> "Escape", metaKey |-> FALSE, action |-> "dispatchEscape"]}

\* the early return for keys typed into a field, Escape excepted
ignoredInField(event) == event.inInput /\ event.key # "Escape"

\* the test of the forEach body
matches(event, shortcut) ==
  /\ event.key = shortcut.key
  /\ (IF shortcut.metaKey THEN event.meta ELSE TRUE)

\* the shortcut whose action handleKeyDown calls for the event, if any
\* (no two shortcuts have the same key)
matching(event) ==
  IF ignoredInField(event) THEN {}
  ELSE {shortcut \in Shortcuts : matches(event, shortcut)}

\* the user presses a key: handleKeyDown runs on the event.  The actions
\* of k and / return; the action of Escape calls document.dispatchEvent,
\* which calls the listeners of document, handleKeyDown among them, before
\* it returns
keydown(event) ==
  /\ keyPc = "idle"
  /\ Len(actionsRun) < MaxKeyActions
  /\ matching(event) # {}
  /\ LET shortcut == CHOOSE sh \in matching(event) : TRUE
     IN /\ actionsRun' = Append(actionsRun, shortcut.action)
        /\ IF shortcut.action = "dispatchEscape"
           THEN keyStack' = <<event>> /\ keyPc' = "handling"
           ELSE UNCHANGED <<keyStack, keyPc>>
  /\ UNCHANGED <<hookVars, decoderVars, viewVars, pageVars, rateVars>>

\* the dispatched event reaches handleKeyDown while the calls of keyStack
\* are still running: its key is Escape, so the action is called again,
\* unless the call stack of the engine is used up (RangeError)
dispatched ==
  /\ keyPc = "handling"
  /\ matching(SyntheticEscape) # {}
  /\ IF Len(keyStack) < MaxStack
     THEN /\ keyStack' = Append(keyStack, SyntheticEscape)
          /\ actionsRun' = Append(actionsRun, "dispatchEscape")
          /\ UNCHANGED keyPc
     ELSE /\ keyPc' = "overflow"
          /\ UNCHANGED <<keyStack, actionsRun>>
  /\ UNCHANGED <<hookVars, decoderVars, viewVars, pageVars, rateVars>>

\* the RangeError is reported and the calls on the stack are left
unwind ==
  /\ keyPc = "overflow"
  /\ keyStack' = << >>
  /\ keyPc' = "idle"
  /\ UNCHANGED actionsRun
  /\ UNCHANGED <<hookVars, decoderVars, viewVars, pageVars, rateVars>>

NextKeys ==
  \/ \E event \in KeyEvents : keydown(event)
  \/ dispatched
  \/ unwind

SpecKeys == Init /\ [][NextKeys]_vars

\* ------------------------------------------------------------------ claims
Last(seq) == seq[Len(seq)]

\* the steps an operation takes while its stream is read
FrameKinds == {"session_id", "thread_id", "status", "token", "sources",
               "related_questions", "done", "error",
               "not_data", "malformed", "unknown_type"}

\* C1: the assistant Turn committed at a done frame has as content the
\* concatenation, in arrival order, of the token payloads its operation
\* received before that frame, whatever the throttle timer did in between.
C1_DoneCommitsConcatenation ==
  lastStep.kind = "done" =>
    /\ conversation # << >>
    /\ Last(conversation).role = "assistant"
    /\ Last(conversation).content = Flatten(ops[lastStep.op].tokens)

\* two tokens, the flush of the first one fired, the flush of the second one
\* still pending when done is dispatched
C1_Witness ==
  /\ lastStep.kind = "done"
  /\ ops[lastStep.op].tokens = << <<"a">>, <<"b">> >>
  /\ content = <<"a">>
  /\ throttleTimerRef

\* C2: once a later operation has been started, every earlier operation is
\* aborted, and no step an earlier operation takes from then on (a frame of
\* any kind, or its catch handler) changes content, sources, conversation,
\* isLoading, status or error.  (A timeout the earlier operation scheduled
\* is not a step of the operation; it is the subject of C12.)
C2_SupersededOperationIsInert ==
  [][ /\ \A i \in 1..(nOps' - 1) : ops'[i].aborted
      /\ \A i \in 1..(nOps - 1) :
           lastStep'.op = i =>
             UNCHANGED <<content, sources, conversation, isLoading, status,
                         error>> ]_vars

\* an operation that had received a token is superseded and then resumes, in
\* its catch handler
C2_Witness ==
  /\ lastStep.kind = "catchAbort"
  /\ lastStep.op < nOps
  /\ ops[lastStep.op].tokens # << >>
  /\ isLoading

\* C3 (as claimed): an operation appends at most one assistant Turn over its
\* lifetime, and the Turn a done frame appends has the concatenated tokens
\* as content and the list of the last sources frame as sources.
C3_ExactlyOneTurnPerOperation ==
  /\ \A i \in OpIds : ops[i].commits <= 1
  /\ lastStep.kind = "done" =>
       Last(conversation) =
         AssistantTurn(Flatten(ops[lastStep.op].tokens),
                       ops[lastStep.op].lastSources)

\* C4: search(query) appends the user Turn of query at the end of the
\* conversation and leaves the earlier Turns as they were, resets content,
\* sources and error, and does so in the step that issues the request: when
\* the request is out and nothing of the response has been processed, the
\* Turn is there.
C4_SearchAppendsUserTurn ==
  [][ lastStep'.kind = "search" =>
        /\ currentQuery' \in Queries
        /\ conversation' = Append(conversation, UserTurn(currentQuery'))
        /\ content' = << >>
        /\ sources' = << >>
        /\ error' = NULL
        /\ fetchCalls' = fetchCalls + 1
        /\ ops'[lastStep'.op].pc = "Connecting" ]_vars

\* a search on top of a loaded conversation whose answer was on display
C4_Witness ==
  /\ lastStep.kind = "search"
  /\ Len(conversation) >= 3
  /\ conversation[2].role = "assistant"
  /\ content = << >>

\* C5: a step other than loadThread and reset leaves the conversation as it
\* is or appends one Turn at its end, and a step that appends an assistant
\* Turn is the dispatch of a done frame.
C5_ConversationAppendOnly ==
  [][ lastStep'.kind \notin {"loadThread", "reset"} =>
        /\ IsPrefix(conversation, conversation')
        /\ Len(conversation') <= Len(conversation) + 1
        /\ (/\ conversation' # conversation
            /\ Last(conversation').role = "assistant")
             => lastStep'.kind = "done" ]_vars

\* a user Turn, the assistant Turn of its answer, and the user Turn of a
\* follow-up, all appended by operations
C5_Witness ==
  /\ lastStep.kind = "followUp"
  /\ lastStep.op = 2
  /\ ops[1].commits = 1
  /\ Len(conversation) = 3
  /\ conversation[2].role = "assistant"

\* C6: followUp called while no session identity is recorded issues no
\* request and starts no operation: no user Turn is appended and isLoading
\* is not changed.
C6_FollowUpWithoutSessionIsLocal ==
  [][ (lastStep'.kind = "followUp" /\ Falsy(sessionId)) =>
        /\ fetchCalls' = fetchCalls
        /\ nOps' = nOps
        /\ ops' = ops
        /\ conversation' = conversation
        /\ isLoading' = isLoading ]_vars

\* followUp without a session while a search is still connecting
C6_Witness ==
  /\ lastStep = Step("followUp", 0)
  /\ Falsy(sessionId)
  /\ nOps = 1
  /\ ops[1].pc = "Connecting"
  /\ ~ops[1].aborted

\* C7 (as claimed): after followUp is called while no session identity is
\* recorded, error is not null.
C7_FollowUpWithoutSessionSetsError ==
  [][ (lastStep'.kind = "followUp" /\ Falsy(sessionId)) =>
        error' # NULL ]_vars

\* C8 (as claimed): after reset() every piece of state has its initial
\* value, the session and thread identity included.
C8_ResetRestoresInitialState ==
  lastStep.kind = "reset" =>
    /\ content = << >>
    /\ sources = << >>
    /\ relatedQuestions = << >>
    /\ status = << >>
    /\ isLoading = FALSE
    /\ error = NULL
    /\ conversation = << >>
    /\ currentQuery = << >>
    /\ sessionId = NULL
    /\ threadId = NULL

\* C9 (as claimed): from reset() until the next call of search, followUp or
\* loadThread, no step changes the state the hook exposes.
C9_NothingChangesAfterReset ==
  [][ (lastCall = "reset" /\ lastCall' = "reset" /\ lastStep'.kind # "reset")
        => UNCHANGED hookState ]_vars

\* C10: right after loadThread of a thread with a user and an assistant
\* message, the conversation is the thread's messages, content and sources
\* are those of the last assistant message (no sources field counting as the
\* empty list), currentQuery is the content of the last user message,
\* isLoading is false, error is null, status is empty, and no request was
\* issued by the call.
LastIndexOfRole(msgs, r, k) ==
  /\ k \in 1..Len(msgs)
  /\ msgs[k].role = r
  /\ \A j \in (k + 1)..Len(msgs) : msgs[j].role # r

C10_LoadThreadShowsThread ==
  [][ lastStep'.kind = "loadThread" =>
        \E t \in Threads :
          /\ threadId' = t.id
          /\ sessionId' = t.session_id
          /\ (\E a, u \in 1..Len(t.messages) :
                /\ LastIndexOfRole(t.messages, "assistant", a)
                /\ LastIndexOfRole(t.messages, "user", u))
             =>
             /\ conversation' = t.messages
             /\ \E a \in 1..Len(t.messages) :
                  /\ LastIndexOfRole(t.messages, "assistant", a)
                  /\ content' = t.messages[a].content
                  /\ sources' = IF t.messages[a].sources = Undefined
                                THEN << >> ELSE t.messages[a].sources
             /\ \E u \in 1..Len(t.messages) :
                  /\ LastIndexOfRole(t.messages, "user", u)
                  /\ currentQuery' = t.messages[u].content
             /\ isLoading' = FALSE
             /\ error' = NULL
             /\ status' = << >>
             /\ fetchCalls' = fetchCalls
             /\ ops' = ops ]_vars

\* the thread with two assistant messages is loaded while an operation is
\* streaming
C10_Witness ==
  /\ lastStep.kind = "loadThread"
  /\ threadId = <<"T2">>
  /\ content = <<"B">>
  /\ currentQuery = <<"R">>
  /\ nOps = 1
  /\ ops[1].pc = "Streaming"

\* a call that the claims on the throttler count as intervening: reset,
\* unmount, or a search/followUp that started a new operation
NewOperationStarted ==
  \/ lastStep.kind = "search"
  \/ lastStep.kind = "followUp" /\ lastStep.op # 0

Intervention ==
  \/ lastStep.kind \in {"reset", "unmount"}
  \/ NewOperationStarted

\* the accumulated buffer of the operation started last
LatestBuffer == IF nOps = 0 THEN << >> ELSE ops[nOps].currentContent

\* C11: after a token frame has supplied the cumulative buffer to the
\* throttler, visible content eventually equals the full accumulated
\* buffer of that operation, unless reset, unmount or a new operation
\* intervenes first.
C11_LastValueEventuallyDelivered ==
  (lastStep.kind = "token") ~> (content = LatestBuffer \/ Intervention)

\* two tokens arrived within one throttle period, the done frame followed,
\* and the timeout then delivered the whole buffer
C11_Witness ==
  /\ lastStep.kind = "throttleFire"
  /\ nOps = 1
  /\ ops[1].commits = 1
  /\ ops[1].tokens = << <<"a">>, <<"b">> >>
  /\ content = <<"a", "b">>

\* C12: a throttle timeout that is pending when search or followUp starts
\* a new operation never runs afterwards: whenever the timeout callback
\* runs, the text it makes visible is the buffer of the operation started
\* last, never text accumulated by a superseded operation.
C12_PendingFlushCancelledByNewOperation ==
  /\ NewOperationStarted => (~throttleTimerRef /\ timeouts = 0)
  /\ (lastStep.kind = "throttleFire" /\ nOps > 0) => content = LatestBuffer

\* the operation that supplied a value to the throttler, if any did
Suppliers == {i \in 1..nOps : ops[i].tokens # << >>}

\* the value most recently supplied to the throttler: a token frame is only
\* dispatched by an operation no later one has aborted
LastSupplied ==
  IF Suppliers = {} THEN << >>
  ELSE ops[CHOOSE i \in Suppliers : \A j \in Suppliers : j <= i].currentContent

\* C13: at most one throttle timeout is scheduled at any moment; a value
\* supplied while one is pending replaces the pending value and schedules
\* nothing; the timeout callback makes the most recently supplied value
\* visible.
C13_CoalescingNotQueuing ==
  [][/\ timeouts' <= 1
     /\ (lastStep'.kind = "token" /\ throttleTimerRef) =>
          /\ timeouts' = timeouts
          /\ throttleTimerRef'
          /\ pendingContentRef' = ops'[lastStep'.op].currentContent
     /\ lastStep'.kind = "throttleFire" =>
          /\ content' = LastSupplied
          /\ timeouts' = 0
          /\ ~throttleTimerRef']_vars

\* three values were supplied within one throttle period and the timeout
\* delivered the third
C13_Witness ==
  /\ lastStep.kind = "throttleFire"
  /\ nOps = 1
  /\ Len(ops[1].tokens) = 3
  /\ content = Flatten(ops[1].tokens)
  /\ timeouts = 0

\* C14: however fast token frames arrive, two successive runs of the
\* throttle timeout callback, the only token-driven updates of visible
\* content, are at least one throttle interval (33 ms) apart.
C14_AtMostOneUpdatePerInterval ==
  lastFlushAt[1] # -1 => lastFlushAt[2] - lastFlushAt[1] >= ThrottleMs

\* a token arrives at the very moment the first timeout runs, and the
\* second timeout runs as early as it can
C14_Witness ==
  /\ lastStep.kind = "throttleFire"
  /\ lastFlushAt = <<ThrottleMs, 2 * ThrottleMs>>
  /\ content = <<"a", "a">>

\* the operations that can still deliver events: started, not aborted,
\* their fetch or their stream still open
CurrentOperations ==
  {i \in OpIds : ops[i].pc \in {"Connecting", "Streaming"} /\ ~ops[i].aborted}

\* C15: in every reachable state at most one operation is un-aborted and
\* still able to deliver events; once search or followUp has issued the
\* request of a new operation, every earlier operation has been aborted.
C15_AtMostOneCurrentOperation ==
  /\ Cardinality(CurrentOperations) <= 1
  /\ \A i \in 1..nOps : i < nOps => ops[i].aborted
  /\ fetchCalls = nOps

\* a second search was called while the first operation was streaming: the
\* first is aborted before its reader has noticed
C15_Witness ==
  /\ lastStep = Step("search", 2)
  /\ ops[1].pc = "Streaming"
  /\ ops[1].aborted
  /\ CurrentOperations = {2}

\* C16: the handler of an aborted operation (superseded, or torn down by
\* unmount) only ends the operation: it sets no error and changes neither
\* isLoading, status, content nor the conversation.
C16_AbortIsNotAnError ==
  [][\A i \in OpIds :
       (ops[i].aborted /\ ops'[i] # ops[i]) =>
         /\ lastStep' = Step("catchAbort", i)
         /\ UNCHANGED aux
         /\ ops'[i].pc = "Aborted"
         /\ UNCHANGED <<error, isLoading, status, content, conversation>>]_vars

\* the first operation was superseded while streaming and its handler has
\* run: the second operation is still loading and no error is shown
C16_Witness ==
  /\ lastStep = Step("catchAbort", 1)
  /\ ops[1].pc = "Aborted"
  /\ ops[1].tokens # << >>
  /\ nOps = 2
  /\ isLoading
  /\ error = NULL

\* C17: when the fetch or the read of the current operation fails for a
\* reason other than abort (non-success HTTP status, network failure), error
\* becomes a non-null, non-empty message, isLoading false and status empty,
\* and no Turn is added to the conversation.
C17_TransportFailureIsReported ==
  [][lastStep'.kind \in {"fetchFail", "readFail"} =>
       /\ error' # NULL
       /\ error' # << >>
       /\ ~isLoading'
       /\ status' = << >>
       /\ conversation' = conversation
       /\ ops'[lastStep'.op].commits = ops[lastStep'.op].commits]_vars

\* the server answered the search with a non-success status
C17_Witness ==
  /\ lastStep = Step("fetchFail", 1)
  /\ error = <<"HTTP error! status: 500">>
  /\ ~isLoading
  /\ status = << >>
  /\ conversation = <<UserTurn(<<"Q">>)>>

\* C18: an error frame sets error to the message of the frame, isLoading
\* to false and status to empty, and appends no Turn to the conversation.
C18_ErrorFrameIsReported ==
  [][lastStep'.kind = "error" =>
       /\ error' \in ErrorMessages
       /\ ~isLoading'
       /\ status' = << >>
       /\ conversation' = conversation
       /\ ops'[lastStep'.op].commits = ops[lastStep'.op].commits]_vars

\* an error frame arrived after a token
C18_Witness ==
  /\ lastStep = Step("error", 1)
  /\ error = <<"boom">>
  /\ ops[1].tokens # << >>
  /\ ~isLoading
  /\ conversation = <<UserTurn(<<"Q">>)>>

\* C19: when the stream of the operation started last has ended, by a
\* transport failure or by the transport reporting end-of-stream, and the
\* operation has taken its last step, isLoading is false.
C19_EndedOperationReturnsToIdle ==
  (/\ nOps > 0
   /\ lastStep.op = nOps
   /\ lastStep.kind \in {"streamEnd", "fetchFail", "readFail"})
  => ~isLoading

\* C20: a data line whose payload fails to parse changes no state of the
\* hook and of the operation, which goes on reading its stream.
C20_MalformedLineIsSkipped ==
  [][lastStep'.kind = "malformed" =>
       /\ UNCHANGED <<hookState, abortControllerRef, throttleTimerRef,
                      timeouts, timerDue, pendingContentRef, ops, nOps,
                      fetchCalls>>
       /\ ops'[lastStep'.op].pc = "Streaming"
       /\ ~ops'[lastStep'.op].aborted]_vars

\* a malformed line arrived after a token frame: the operation is still
\* streaming, its buffer and the pending value are those of the token
C20_Witness ==
  /\ lastStep = Step("malformed", 1)
  /\ ops[1].pc = "Streaming"
  /\ ops[1].currentContent = <<"a">>
  /\ pendingContentRef = <<"a">>
  /\ throttleTimerRef
  /\ isLoading
  /\ error = NULL

\* C25: in an operation started by search or by followUp, after a
\* session_id frame the recorded session identity is the payload of the
\* frame, and after a thread_id frame the recorded thread identity is the
\* payload of the frame.
C25_IdentityFramesAreRecorded ==
  /\ lastStep.kind = "session_id" => sessionId \in SessionIds
  /\ lastStep.kind = "thread_id" => threadId \in ThreadIds

\* C27: a line without the event-data prefix and a parsed frame whose type
\* is none of the eight event kinds change no state of the hook and of the
\* operation, which goes on with the next line.
C27_UnrecognisedInputIsNoOp ==
  [][lastStep'.kind \in {"not_data", "unknown_type"} =>
       /\ UNCHANGED <<hookState, abortControllerRef, throttleTimerRef,
                      timeouts, timerDue, pendingContentRef, ops, nOps,
                      fetchCalls>>
       /\ ops'[lastStep'.op].pc = "Streaming"
       /\ ~ops'[lastStep'.op].aborted]_vars

\* a frame of an unknown type arrived after a sources frame, while loading
C27_Witness ==
  /\ lastStep = Step("unknown_type", 1)
  /\ ops[1].pc = "Streaming"
  /\ sources = <<"s1">>
  /\ isLoading
  /\ error = NULL

\* C28: once an operation has processed an error frame, no later frame of
\* that operation appends a Turn or changes content, sources, isLoading or
\* error.
C28_ErroredIsTerminal ==
  [][\A i \in OpIds :
       (ops[i].errored /\ lastStep'.op = i /\ lastStep'.kind \in FrameKinds)
       => /\ ops'[i].commits = ops[i].commits
          /\ UNCHANGED <<conversation, content, sources, isLoading, error>>]_vars

\* the bytes handed over so far, decoded in one piece
DecodedSoFar == decodeStream(<< >>, SubSeq(stream, 1, delivered)).out

\* the positions of the newlines of a text, and the k-th of them
NewlinesOf(text) == {k \in 1..Len(text) : text[k] = "NL"}
NthNewline(text, i) ==
  CHOOSE k \in NewlinesOf(text) :
    Cardinality({j \in NewlinesOf(text) : j < k}) = i - 1

\* the newline-terminated lines of a text, in order
TerminatedLines(text) ==
  [i \in 1..Cardinality(NewlinesOf(text)) |->
     SubSeq(text,
            IF i = 1 THEN 1 ELSE NthNewline(text, i - 1) + 1,
            NthNewline(text, i) - 1)]

\* C21: however the bytes received so far were cut into chunks, the lines
\* handed to the event parser are the newline-terminated lines of those
\* bytes decoded in one piece, in order; so any two ways of cutting a
\* stream hand over the same lines.
C21_LinesIndependentOfChunking ==
  handedLines = TerminatedLines(DecodedSoFar)

\* a chunk ended in the middle of a character and of a line, after a
\* complete line had been handed over
C21_Witness ==
  /\ decoderPending = <<"C3">>
  /\ buffer = <<"d">>
  /\ handedLines = << <<"d">> >>
  /\ delivered = 4

\* C26: every line handed to the event parser had its newline received,
\* and when the stream ends the fragment in the carry-over buffer is not
\* handed over.
C26_OnlyTerminatedLinesAreParsed ==
  [][/\ Len(handedLines') =
          Cardinality({k \in 1..delivered' : stream'[k] = "NL"})
     /\ (readerDone' /\ ~readerDone) => handedLines' = handedLines]_vars

\* the stream ended with an unterminated final line
C26_Witness ==
  /\ readerDone
  /\ buffer = <<"d", "d">>
  /\ handedLines = << <<"d">> >>

\* the URL stored on the element that was clicked
ClickedUrl ==
  IF "data-url" \in displayed[clicked].attrs THEN displayed[clicked].url
  ELSE << >>

\* C23: after a citation was activated, window.open has been called, once
\* and with the stored URL, if and only if that URL parses and its scheme
\* is http or https; the error state of the hook is not set.
C23_OnlyHttpUrlsAreOpened ==
  (viewPc = "clicked" /\ displayed[clicked].k = "cite") =>
    /\ opened # << >> <=>
         (urlParses(ClickedUrl) /\ protocol(ClickedUrl) \in {"http:", "https:"})
    /\ opened # << >> => opened = <<ClickedUrl>>
    /\ error = NULL

\* a citation bound to a javascript: URL was activated and nothing opened
C23_Witness ==
  /\ viewPc = "clicked"
  /\ displayed[clicked].k = "cite"
  /\ protocol(ClickedUrl) = "javascript:"
  /\ opened = << >>

IsMarker(piece) == piece.k = "marker"
IsMarkerOrCitation(piece) == piece.k \in {"marker", "cite"}

\* C22: in what SearchResults shows for a message, which it passes through
\* renderContentWithCitations, the markers of the content appear one for
\* one and in order: a marker [n] with 1 <= n <= k (k the number of
\* sources) as a citation element that carries the index n-1 and the URL
\* and title of sources[n-1], every other marker as the same marker.
C22_MarkersBoundToTheirSources ==
  (viewPc = "shown" /\ viewPath \in {"turn", "streaming"}) =>
    LET ins == SelectSeq(props.content, IsMarker)
        outs == SelectSeq(displayed, IsMarkerOrCitation)
        k == Len(props.sources)
    IN /\ Len(outs) = Len(ins)
       /\ \A i \in 1..Len(ins) :
            IF ins[i].n >= 1 /\ ins[i].n <= k
            THEN /\ outs[i].k = "cite"
                 /\ {"data-source-index", "data-url", "title"}
                      \subseteq outs[i].attrs
                 /\ outs[i].n = ins[i].n - 1
                 /\ outs[i].url = props.sources[ins[i].n].url
                 /\ outs[i].title = props.sources[ins[i].n].title
            ELSE outs[i] = ins[i]

IsElement(piece) == piece.k = "el"
IsAllowedElement(piece) == piece.k = "el" /\ piece.tag \in ALLOWED_TAGS
TagsOf(html) == [i \in 1..Len(html) |-> html[i].tag]

\* C24: in what is shown for a finalized turn, every element has a tag of
\* ALLOWED_TAGS and only attributes of ALLOWED_ATTR, and the elements of
\* the content whose tag is in ALLOWED_TAGS are all there, in order.
C24_OnlyAllowListedMarkup ==
  (viewPc = "shown" /\ viewPath = "turn") =>
    /\ \A i \in 1..Len(displayed) :
         displayed[i].k \in {"el", "cite"} =>
           /\ displayed[i].tag \in ALLOWED_TAGS
           /\ displayed[i].attrs \subseteq ALLOWED_ATTR
    /\ TagsOf(SelectSeq(displayed, IsElement))
         = TagsOf(SelectSeq(props.content, IsAllowedElement))

\* C29: what is shown for the streaming content is the content itself, and
\* no stage of renderContentWithCitations has run on it.
C29_StreamingContentShownDirectly ==
  (viewPc = "shown" /\ props.isStreaming) =>
    /\ stagesRun = << >>
    /\ displayed = props.content

\* C30: whenever renderContentWithCitations has run, each marker
\* substitution in it has a sanitizer pass before it and one after it.
C30_SubstitutionOnlyOnSanitizedContent ==
  viewPc = "shown" =>
    \A i \in 1..Len(stagesRun) :
      stagesRun[i] = "replace" =>
        /\ \E j \in 1..(i - 1) : stagesRun[j] = "sanitize"
        /\ \E j \in (i + 1)..Len(stagesRun) : stagesRun[j] = "sanitize"

\* C32: a step of one operation leaves the accumulated content and sources
\* of every other operation as they are, and the assistant Turn a done
\* frame appends is made of the accumulated content and sources of the
\* operation that received the frame: the token payloads and the last
\* sources list that operation itself received.
C32_TurnBuiltFromOwnFrames ==
  [][ /\ \A j \in OpIds :
           lastStep'.op # j =>
             /\ ops'[j].currentContent = ops[j].currentContent
             /\ ops'[j].currentSources = ops[j].currentSources
             /\ ops'[j].tokens = ops[j].tokens
      /\ lastStep'.kind = "done" =>
           conversation' =
             Append(conversation,
                    AssistantTurn(Flatten(ops[lastStep'.op].tokens),
                                  ops[lastStep'.op].lastSources)) ]_vars

\* the second operation commits its Turn after the first one, superseded,
\* had received a token, whose flush has reached content
C32_Witness ==
  /\ lastStep = Step("done", 2)
  /\ ops[1].tokens = << <<"b">> >>
  /\ ops[2].tokens = << >>
  /\ ops[1].aborted
  /\ content = <<"b">>
  /\ Last(conversation) = AssistantTurn(<< >>, << >>)

\* C33: in every reachable state, if error is not null then isLoading is
\* false.
C33_ErrorImpliesNotLoading ==
  error # NULL => ~isLoading

\* an error is on display, and a request made after it has cleared it and
\* is loading
C33_Witness ==
  /\ lastStep = Step("search", 2)
  /\ ops[1].errored
  /\ error = NULL
  /\ isLoading

\* Turns alternate between user and assistant, the first one being a user
\* Turn
Alternates(msgs) ==
  \A k \in 1..Len(msgs) :
    msgs[k].role = (IF k % 2 = 1 THEN "user" ELSE "assistant")

\* C34 (as claimed): as long as no thread has been loaded into the hook
\* (threadId is null: loadThread sets it and no step sets it back to null),
\* so that the conversation is made by search and followUp operations and
\* their outcomes alone, the conversation alternates user and assistant
\* Turns, starting with a user Turn.
C34_ConversationAlternates ==
  threadId = NULL => Alternates(conversation)

HasRole(msgs, r) == \E k \in 1..Len(msgs) : msgs[k].role = r

\* C36 (as claimed): right after loadThread(data), content and sources are
\* determined by data alone.  loadThread of a thread without assistant
\* message in the initial state shows the empty content and no sources, so
\* this is what the two must be after every call with such a thread.
C36_LoadThreadDependsOnlyOnData ==
  (lastStep.kind = "loadThread" /\ ~HasRole(conversation, "assistant")) =>
    (content = << >> /\ sources = << >>)

\* C35 (as claimed): from loadThread(data) until the next call of search,
\* followUp, loadThread or reset, no step changes conversation, content or
\* sources.
C35_LoadedThreadStaysOnDisplay ==
  [][ (/\ lastCall = "loadThread"
       /\ lastCall' = "loadThread"
       /\ lastStep'.kind # "loadThread")
        => UNCHANGED <<conversation, content, sources>> ]_vars

\* C37 (as claimed): once every thread fetch the page has issued has
\* resolved with its thread, the conversation shown is that of the thread
\* the URL names, in whatever order the responses arrived.
C37_LastNavigationWins ==
  (/\ urlThread # NULL
   /\ \A k \in 1..Len(threadFetches) : threadFetches[k].state = "loaded")
    => conversation = ThreadById(urlThread).messages

\* how many calls that returned true were made in the window (from, to]
AcceptedIn(from, to) ==
  Cardinality({k \in 1..Len(accepted) :
                 accepted[k] > from /\ accepted[k] <= to})

\* C31: with the clock never running backwards, every window
\* (s, s + windowMs] holds at most maxRequests calls that returned true; a
\* call made at time t returned false if maxRequests calls that returned
\* true lie in (t - windowMs, t], and true if, itself not counted, fewer
\* do; and the timestamps the hook keeps are those of the calls that
\* returned true in the window of the last call, so a call that returned
\* false has recorded none.
C31_RateLimitHolds ==
  /\ \A s \in (0 - MaxWindow)..MaxClock :
       AcceptedIn(s, s + options.windowMs) <= options.maxRequests
  /\ lastResult.result = "false" =>
       /\ AcceptedIn(lastResult.at - options.windowMs, lastResult.at)
            = options.maxRequests
       /\ accepted # << >>
       /\ Last(accepted) <= lastResult.at
  /\ lastResult.result = "true" =>
       /\ accepted # << >>
       /\ Last(accepted) = lastResult.at
       /\ AcceptedIn(lastResult.at - options.windowMs, lastResult.at)
            <= options.maxRequests
  /\ lastResult.result # "none" =>
       requestTimestamps =
         inWindow(accepted, lastResult.at - options.windowMs)

\* two requests per three ms: the calls at 1 and 2 have passed and the
\* call at 3 has been refused, until 4
C31_Witness ==
  /\ options = [maxRequests |-> 2, windowMs |-> 3]
  /\ accepted = <<1, 2>>
  /\ lastResult = [result |-> "false", at |-> 3]
  /\ requestTimestamps = <<1, 2>>
  /\ remainingRequests = 0
  /\ resetTime = 4

\* C38 (as claimed): whatever component has put content that is not empty
\* into the page as markup, the last call made on the content was the
\* sanitizer, and the markup holds no element with a tag outside
\* ALLOWED_TAGS.
C38_InsertedMarkupIsSanitized ==
  (viewPc = "shown" /\ props.content # << >>) =>
    /\ stagesRun # << >>
    /\ Last(stagesRun) = "sanitize"
    /\ \A i \in 1..Len(displayed) : tagAllowed(displayed[i])

\* C39 (as claimed): handling a keydown event ends: the nested calls of
\* handleKeyDown that one event causes never use up the call stack.
C39_EscapeHandlingTerminates ==
  keyPc # "overflow"
====
